---- MODULE Spec2Model ----
(***************************************************************************)
(* A model of ERA5_functions.py: the file-span locators, the coordinate    *)
(* index resolvers and the hyperslab readers.                              *)
(*                                                                         *)
(* Every Python function is a pure function of the files it opens and of   *)
(* its arguments, so each is an operator computed the way the code         *)
(* computes it, and each call is one action: from "idle" the action draws  *)
(* the arguments, applies the function and stores the call and what it     *)
(* returned (or the exception it raised).                                  *)
(*                                                                         *)
(* Python indices are kept 0-based, as in the source.                      *)
(***************************************************************************)
EXTENDS Integers, Sequences, FiniteSets

VARIABLES
  allfiles,  \* sorted(glob.glob(...)): the time axis of each file, in order
  grid,      \* the latitude, longitude and level axes of the files
  pc,        \* where the caller is: "idle", "located", "resolved", "done"
  call,      \* the function called last and its arguments
  ret,       \* what it returned; ret.err names the exception if it raised
  loc,       \* what get_E5_ss_2D_fiti returned, kept for the reader
  win        \* what get_E5_ss_2D_coords returned, kept for the reader

vars == <<allfiles, grid, pc, call, ret, loc, win>>

(***************************************************************************)
(* Bounds of the model.                                                    *)
(***************************************************************************)
\* Most files in the data directory.
MaxFiles == 3
\* Most time steps stored in one file.
MaxLen == 3
\* Spacing of the stored time axis, in the files' time units.
Step == 4

(***************************************************************************)
(* Python sequences.                                                       *)
(***************************************************************************)
Abs(x) == IF x < 0 THEN -x ELSE x

Min(a, b) == IF a < b THEN a ELSE b

\* lst[i]
At(lst, i) == lst[i + 1]

\* lst[-1]
Last(lst) == lst[Len(lst)]

\* lst[a:b], for 0 <= a and 0 <= b
Slice(lst, a, b) == SubSeq(lst, a + 1, Min(b, Len(lst)))

\* lst[a:], for 0 <= a
From(lst, a) == SubSeq(lst, a + 1, Len(lst))

\* lst.index(v), for v in lst
IndexOf(lst, v) == (CHOOSE i \in 1..Len(lst) : lst[i] = v /\ \A j \in 1..(i - 1) : lst[j] # v) - 1

\* v in lst
IsIn(v, lst) == \E i \in 1..Len(lst) : lst[i] = v

RECURSIVE SumSeq(_)
SumSeq(s) == IF s = <<>> THEN 0 ELSE Head(s) + SumSeq(Tail(s))

(***************************************************************************)
(* misc_functions.k_closest: the indices of the k elements of lst nearest  *)
(* to value, nearest first, ties broken by first occurrence.               *)
(***************************************************************************)
k_closest(lst, value, k) ==
  LET d(i) == Abs(lst[i] - value)
      Before(j, i) == d(j) < d(i) \/ (d(j) = d(i) /\ j < i)
      rank(i) == Cardinality({j \in 1..Len(lst) : Before(j, i)})
  IN  [r \in 1..Min(k, Len(lst)) |-> (CHOOSE i \in 1..Len(lst) : rank(i) = r - 1) - 1]

(***************************************************************************)
(* The data directory: sorted(glob(...)) is a chronologically ordered list *)
(* of files, each holding an ascending time axis; the files partition one  *)
(* uniformly spaced time axis that starts at FirstTime.                    *)
(***************************************************************************)
FirstTime == Step

FileTimes(lens, f) ==
  [i \in 1..lens[f] |-> FirstTime + Step * (SumSeq(SubSeq(lens, 1, f - 1)) + i - 1)]

MkFiles(lens) == [f \in 1..Len(lens) |-> FileTimes(lens, f)]

Layouts == UNION {{MkFiles(lens) : lens \in [1..n -> 1..MaxLen]} : n \in 1..MaxFiles}

\* fh.variables["time"][:] of the f-th file (f is 0-based)
TimeAxis(f) == At(allfiles, f)

\* The times a caller may ask for: from before the first stored time to after
\* the last one (tfns.time_since has already converted the string).
QueryTimes == 0..(Last(Last(allfiles)) + Step)

(***************************************************************************)
(* The grid, the same in every file: fh.variables["latitude"][:],          *)
(* fh.variables["longitude"][:] and fh.variables["level"][:].  Longitude   *)
(* is ascending over [0, 360); latitude is stored north to south (as ERA5  *)
(* stores it) or south to north; level is ascending.                       *)
(***************************************************************************)
LonAxis == <<0, 45, 90, 135, 180, 225, 270, 315>>

LatAxes == {<<90, 0, -90>>, <<-90, 0, 90>>}

LevAxis == <<100, 200, 300>>

Grids == {[lat |-> la, lon |-> LonAxis, lev |-> LevAxis] : la \in LatAxes}

\* The indices 0..n-1 of an axis.
Indices(axis) == [i \in 1..Len(axis) |-> i - 1]

\* Exceptions.
NoError == "none"
UnboundLocalError == "UnboundLocalError"
DataUnavailable == "ValueError: Data is unavailable"
TimeBefore == "ValueError: Time is before range of times in files"
TimeAfter == "ValueError: Time is after range of times in files"
SelectingTimes == "ValueError: Something went wrong in selecting times"
NumpyValueError == "ValueError: array shapes do not match"

\* times1[0] <= t <= times1[-1]
Within(times1, t) == times1[1] <= t /\ t <= Last(times1)

(***************************************************************************)
(* get_E5_ss_4D_fiti.  The loop state st holds the locals of the function: *)
(* a local that is not assigned yet is the empty sequence (timi1, timi2)   *)
(* or is flagged by timesSet.                                              *)
(***************************************************************************)
fiti4D_init ==
  [append |-> FALSE, ssfiles |-> <<>>, times |-> <<>>, timesSet |-> FALSE,
   timi1 |-> <<>>, timi2 |-> <<>>, brk |-> FALSE, err |-> NoError]

\* One pass of the loop body, on file fi (0-based).
fiti4D_body(st, fi, time1, time2) ==
  LET times1 == TimeAxis(fi)
      in1 == Within(times1, time1)
      in2 == Within(times1, time2)
  IN  IF in1 /\ in2 THEN
        \* First and last file
        LET i1 == At(k_closest(times1, time1, 1), 0)
            i2 == At(k_closest(times1, time2, 1), 0)
        IN  [st EXCEPT !.timi1 = <<i1>>, !.timi2 = <<i2>>,
                       !.times = Slice(times1, i1, i2 + 1), !.timesSet = TRUE,
                       !.ssfiles = Append(@, fi), !.brk = TRUE]
      ELSE IF in1 /\ ~in2 THEN
        \* First file only
        LET i1 == At(k_closest(times1, time1, 1), 0)
        IN  [st EXCEPT !.timi1 = <<i1>>,
                       !.times = From(times1, i1), !.timesSet = TRUE,
                       !.ssfiles = Append(@, fi), !.append = TRUE]
      ELSE IF in2 THEN
        \* Last file
        LET i2 == At(k_closest(times1, time2, 1), 0)
        IN  IF ~st.timesSet
            THEN [st EXCEPT !.timi2 = <<i2>>, !.err = UnboundLocalError, !.brk = TRUE]
            ELSE [st EXCEPT !.timi2 = <<i2>>,
                            !.times = @ \o Slice(times1, 0, i2 + 1),
                            !.ssfiles = Append(@, fi), !.brk = TRUE]
      ELSE IF st.append THEN
        \* Middle file
        [st EXCEPT !.times = @ \o times1, !.ssfiles = Append(@, fi)]
      ELSE st

RECURSIVE fiti4D_loop(_, _, _, _)
fiti4D_loop(st, fi, time1, time2) ==
  IF fi >= Len(allfiles) \/ st.brk THEN st
  ELSE fiti4D_loop(fiti4D_body(st, fi, time1, time2), fi + 1, time1, time2)

get_E5_ss_4D_fiti(time1, time2) ==
  LET st == fiti4D_loop(fiti4D_init, 0, time1, time2)
  IN  IF st.err # NoError THEN [err |-> st.err]
      \* timi = np.squeeze([timi1,timi2])
      ELSE IF st.timi1 = <<>> \/ st.timi2 = <<>> THEN [err |-> UnboundLocalError]
      ELSE [err |-> NoError, ssfiles |-> st.ssfiles,
            timi |-> st.timi1 \o st.timi2, times |-> st.times]

(***************************************************************************)
(* get_E5_ss_files.  pfi is the previous file (empty while unassigned).    *)
(***************************************************************************)
files_init ==
  [append |-> FALSE, ssfiles |-> <<>>, ifi |-> 0, pfi |-> <<>>,
   brk |-> FALSE, err |-> NoError]

\* ptimes1[-1] < t < times1[0]
InGap(st, times1, t) ==
  /\ st.ifi > 0
  /\ Last(TimeAxis(st.pfi[1])) < t
  /\ t < times1[1]

\* A loop body whose "If last time is within current file" does not break.
files_tail_noBreak(st, fi, time2) ==
  LET times1 == TimeAxis(fi)
  IN  IF InGap(st, times1, time2) THEN
        [st EXCEPT !.ssfiles = Append(@, fi), !.brk = TRUE]
      ELSE IF Within(times1, time2) THEN
        [st EXCEPT !.ssfiles = Append(@, fi)]
      ELSE
        [st EXCEPT !.ssfiles = IF st.append THEN Append(@, fi) ELSE @,
                   !.pfi = <<fi>>, !.ifi = @ + 1]

\* The end of the loop body, from "If last time between current and past
\* files" on.
files_tail(st, fi, time2) ==
  LET times1 == TimeAxis(fi)
  IN  IF InGap(st, times1, time2) THEN
        [st EXCEPT !.ssfiles = Append(@, fi), !.brk = TRUE]
      ELSE IF Within(times1, time2) THEN
        [st EXCEPT !.ssfiles = Append(@, fi), !.brk = TRUE]
      ELSE
        [st EXCEPT !.ssfiles = IF st.append THEN Append(@, fi) ELSE @,
                   !.pfi = <<fi>>, !.ifi = @ + 1]

files_body(st, fi, time1, time2) ==
  LET times1 == TimeAxis(fi)
      in1 == Within(times1, time1)
      in2 == Within(times1, time2)
  IN  IF st.ifi = 0 /\ times1[1] > time1 THEN
        \* If missing data
        [st EXCEPT !.ssfiles = Append(@, fi), !.err = DataUnavailable, !.brk = TRUE]
      ELSE IF in1 /\ in2 THEN
        [st EXCEPT !.ssfiles = Append(@, fi), !.brk = TRUE]
      ELSE IF in1 /\ ~in2 THEN
        [st EXCEPT !.ssfiles = Append(@, fi), !.pfi = <<fi>>, !.ifi = @ + 1,
                   !.append = TRUE]
      ELSE IF InGap(st, times1, time1) /\ InGap(st, times1, time2) THEN
        [st EXCEPT !.ssfiles = @ \o <<st.pfi[1], fi>>, !.brk = TRUE]
      ELSE IF InGap(st, times1, time1) /\ ~InGap(st, times1, time2) THEN
        files_tail([st EXCEPT !.ssfiles = Append(@, st.pfi[1]), !.pfi = <<fi>>,
                              !.ifi = @ + 1, !.append = TRUE], fi, time2)
      ELSE files_tail(st, fi, time2)

RECURSIVE files_loop(_, _, _, _)
files_loop(st, fi, time1, time2) ==
  IF fi >= Len(allfiles) \/ st.brk THEN st
  ELSE files_loop(files_body(st, fi, time1, time2), fi + 1, time1, time2)

get_E5_ss_files(time1, time2) ==
  LET st == files_loop(files_init, 0, time1, time2)
  IN  IF st.err # NoError THEN [err |-> st.err]
      ELSE [err |-> NoError, ssfiles |-> st.ssfiles]

(***************************************************************************)
(* numpy arrays.  A coordinate vector is [ndim, v]: np.squeeze turns a     *)
(* one-element vector into a 0-d array (ndim = 0), a Python list has       *)
(* ndim = 1.  A hyperslab of the stored variable is [dims]: one sequence   *)
(* per axis, naming what the axis holds (the stored time values on the     *)
(* time axis, the grid indices on the others), so that its shape is the    *)
(* lengths of dims and element [a,b,c,d] is the stored value at            *)
(* (dims[1][a], dims[2][b], dims[3][c], dims[4][d]).                       *)
(***************************************************************************)
PyList(v) == [ndim |-> 1, v |-> v]

\* np.squeeze(list(v))
SqueezeVec(v) == [ndim |-> IF Len(v) = 1 THEN 0 ELSE 1, v |-> v]

\* np.squeeze(a)
Squeeze(a) == [dims |-> SelectSeq(a.dims, LAMBDA d : Len(d) # 1)]

\* np.concatenate((a,b),axis=ax): defined when the arrays have the same number
\* of dimensions and the same shape off the axis (ax is 0-based).
CanConcat(a, b, ax) ==
  /\ Len(a.dims) = Len(b.dims)
  /\ ax < Len(a.dims)
  /\ \A k \in 1..Len(a.dims) : k # ax + 1 => Len(a.dims[k]) = Len(b.dims[k])

Concat(a, b, ax) == [dims |-> [a.dims EXCEPT ![ax + 1] = @ \o b.dims[ax + 1]]]

(***************************************************************************)
(* get_E5_ss_4D_coords(fh,lat1,lat2,lon1,lon2)                             *)
(***************************************************************************)
\* A resolver that looks the latitude bounds up in the order (lat1, lat2).
get_E5_ss_4D_coords_latReversed(lat1, lat2, lon1in, lon2in) ==
  LET lon1 == IF lon1in < 0 THEN lon1in + 360 ELSE lon1in
      lon2 == IF lon2in < 0 THEN lon2in + 360 ELSE lon2in
      lat == grid.lat
      lon == grid.lon
      lati == k_closest(lat, lat1, 1) \o k_closest(lat, lat2, 1)
      loni == k_closest(lon, lon1, 1) \o k_closest(lon, lon2, 1)
      latwin == Slice(lat, At(lati, 0), At(lati, 1) + 1)
  IN  IF At(loni, 0) < At(loni, 1) THEN
        [err |-> NoError, lati |-> lati, loni |-> loni,
         lats |-> SqueezeVec(latwin),
         lons |-> SqueezeVec(Slice(lon, At(loni, 0), At(loni, 1) + 1))]
      ELSE IF At(loni, 0) > At(loni, 1) THEN
        LET seg == From(lon, At(loni, 0))
            lons1 == [i \in 1..Len(seg) |-> IF seg[i] < 180 THEN seg[i] ELSE seg[i] - 360]
            lons2 == Slice(lon, 0, At(loni, 1) + 1)
        IN  [err |-> NoError, lati |-> lati, loni |-> loni,
             lats |-> PyList(latwin), lons |-> PyList(lons1 \o lons2)]
      \* neither branch assigns lats and lons
      ELSE [err |-> UnboundLocalError]

get_E5_ss_4D_coords(lat1, lat2, lon1in, lon2in) ==
  LET lon1 == IF lon1in < 0 THEN lon1in + 360 ELSE lon1in
      lon2 == IF lon2in < 0 THEN lon2in + 360 ELSE lon2in
      lat == grid.lat
      lon == grid.lon
      lati == k_closest(lat, lat2, 1) \o k_closest(lat, lat1, 1)
      loni == k_closest(lon, lon1, 1) \o k_closest(lon, lon2, 1)
      latwin == Slice(lat, At(lati, 0), At(lati, 1) + 1)
  IN  IF At(loni, 0) < At(loni, 1) THEN
        [err |-> NoError, lati |-> lati, loni |-> loni,
         lats |-> SqueezeVec(latwin),
         lons |-> SqueezeVec(Slice(lon, At(loni, 0), At(loni, 1) + 1))]
      ELSE IF At(loni, 0) > At(loni, 1) THEN
        LET seg == From(lon, At(loni, 0))
            lons1 == [i \in 1..Len(seg) |-> IF seg[i] < 180 THEN seg[i] ELSE seg[i] - 360]
            lons2 == Slice(lon, 0, At(loni, 1) + 1)
        IN  [err |-> NoError, lati |-> lati, loni |-> loni,
             lats |-> PyList(latwin), lons |-> PyList(lons1 \o lons2)]
      \* neither branch assigns lats and lons
      ELSE [err |-> UnboundLocalError]

(***************************************************************************)
(* get_E5_ss_4D_levels(fh,lev1,lev2)                                       *)
(***************************************************************************)
get_E5_ss_4D_levels(lev1, lev2) ==
  LET lev == grid.lev
      levi == k_closest(lev, lev1, 1) \o k_closest(lev, lev2, 1)
  IN  [err |-> NoError, levi |-> levi,
       levs |-> SqueezeVec(Slice(lev, At(levi, 0), At(levi, 1) + 1))]

(***************************************************************************)
(* get_E5_ss_4D_var(files,varname,timi,levi,lati,loni)                     *)
(***************************************************************************)
\* fh.variables[varname][tsel, levi[0]:levi[1], lati[0]:lati[1]+1, lonsel]
Hyperslab4D(tsel, levi, lati, lonsel) ==
  [dims |-> <<tsel,
              Slice(Indices(grid.lev), At(levi, 0), At(levi, 1)),
              Slice(Indices(grid.lat), At(lati, 0), At(lati, 1) + 1),
              lonsel>>]

\* The read of one file on the time selection tsel: <<>> when neither
\* longitude branch is taken, else <<the array>>.
ReadLon4D(tsel, levi, lati, loni) ==
  LET lonidx == Indices(grid.lon)
  IN  IF At(loni, 0) < At(loni, 1) THEN
        <<Hyperslab4D(tsel, levi, lati, Slice(lonidx, At(loni, 0), At(loni, 1) + 1))>>
      ELSE IF At(loni, 0) > At(loni, 1) THEN
        <<Concat(Hyperslab4D(tsel, levi, lati, From(lonidx, At(loni, 0))),
                 Hyperslab4D(tsel, levi, lati, Slice(lonidx, 0, At(loni, 1) + 1)), 3)>>
      ELSE <<>>

\* One pass of the loop body, on the c-th file of files; st.varss is <<>>
\* while varss is unassigned.
var4D_body(st, c, files, timi, levi, lati, loni) ==
  LET times1 == TimeAxis(At(files, c))
  IN  IF c = 0 THEN
        \* At first time
        [st EXCEPT !.varss = ReadLon4D(From(times1, At(timi, 0)), levi, lati, loni)]
      ELSE
        LET rd == IF c = Len(files) - 1
                  THEN ReadLon4D(Slice(times1, 0, At(timi, 1) + 1), levi, lati, loni)
                  ELSE ReadLon4D(times1, levi, lati, loni)
        IN  IF st.varss = <<>> \/ rd = <<>> THEN [st EXCEPT !.err = UnboundLocalError]
            ELSE IF ~CanConcat(st.varss[1], rd[1], 0) THEN [st EXCEPT !.err = NumpyValueError]
            ELSE IF c = Len(files) - 1
                 \* At last time
                 THEN [st EXCEPT !.varss = <<Concat(st.varss[1], rd[1], 0)>>]
                 \* Middle times
                 ELSE [st EXCEPT !.varss = <<Squeeze(Concat(st.varss[1], rd[1], 0))>>]

RECURSIVE var4D_loop(_, _, _, _, _, _, _)
var4D_loop(st, c, files, timi, levi, lati, loni) ==
  IF c >= Len(files) \/ st.err # NoError THEN st
  ELSE var4D_loop(var4D_body(st, c, files, timi, levi, lati, loni), c + 1,
                  files, timi, levi, lati, loni)

get_E5_ss_4D_var(files, timi, levi, lati, loni) ==
  LET st == var4D_loop([varss |-> <<>>, err |-> NoError], 0, files, timi, levi, lati, loni)
  IN  IF st.err # NoError THEN [err |-> st.err]
      ELSE IF st.varss = <<>> THEN [err |-> UnboundLocalError]
      ELSE [err |-> NoError, var |-> st.varss[1]]

(***************************************************************************)
(* get_E5_ss_4D(datadir,fileid,varname,timestr1,timestr2,                  *)
(*              lev1,lev2,lat1,lat2,lon1,lon2)                             *)
(***************************************************************************)
get_E5_ss_4D(time1, time2, lev1, lev2, lat1, lat2, lon1, lon2) ==
  LET ft == get_E5_ss_4D_fiti(time1, time2)
      co == get_E5_ss_4D_coords(lat1, lat2, lon1, lon2)
      lv == get_E5_ss_4D_levels(lev1, lev2)
      vr == get_E5_ss_4D_var(ft.ssfiles, ft.timi, lv.levi, co.lati, co.loni)
  IN  IF ft.err # NoError THEN [err |-> ft.err]
      ELSE IF co.err # NoError THEN [err |-> co.err]
      ELSE IF vr.err # NoError THEN [err |-> vr.err]
      ELSE [err |-> NoError, var |-> vr.var, times |-> ft.times,
            levs |-> lv.levs, lats |-> co.lats, lons |-> co.lons]

\* The bounds a caller of the 4-D functions asks for.
LevQuery == {<<100, 100>>, <<100, 200>>, <<100, 300>>}

LatQuery == {<<0, 0>>, <<0, 90>>}

LonQuery == {<<0, 90>>, <<-90, 90>>, <<0, 0>>}

(***************************************************************************)
(* get_E5_ss_2D_fiti(allfiles,timestr).  ltinpf and pf are empty while     *)
(* unassigned ("ltinpf" in locals()), and so is files.                     *)
(***************************************************************************)
fiti2D_init ==
  [it |-> 0, ltinpf |-> <<>>, pf |-> <<>>, files |-> <<>>, brk |-> FALSE,
   err |-> NoError]

\* A locator that lists the two bracketing files in the wrong order.
fiti2D_body_swapped(st, fi, ctime) ==
  LET t0 == At(TimeAxis(fi), 0)
      tN == Last(TimeAxis(fi))
  IN  IF ctime < t0 /\ st.it = 0 THEN
        [st EXCEPT !.err = TimeBefore, !.brk = TRUE]
      ELSE IF ctime > tN /\ st.it = Len(allfiles) - 1 THEN
        [st EXCEPT !.err = TimeAfter, !.brk = TRUE]
      ELSE IF t0 <= ctime /\ ctime <= tN THEN
        [st EXCEPT !.files = <<fi>>, !.brk = TRUE]
      ELSE IF st.ltinpf # <<>> /\ st.ltinpf[1] <= ctime /\ ctime <= t0 THEN
        [st EXCEPT !.files = <<fi, st.pf[1]>>, !.brk = TRUE]
      ELSE
        [st EXCEPT !.ltinpf = <<tN>>, !.pf = <<fi>>, !.it = @ + 1]

fiti2D_body(st, fi, ctime) ==
  LET t0 == At(TimeAxis(fi), 0)
      tN == Last(TimeAxis(fi))
  IN  IF ctime < t0 /\ st.it = 0 THEN
        [st EXCEPT !.err = TimeBefore, !.brk = TRUE]
      ELSE IF ctime > tN /\ st.it = Len(allfiles) - 1 THEN
        [st EXCEPT !.err = TimeAfter, !.brk = TRUE]
      ELSE IF t0 <= ctime /\ ctime <= tN THEN
        [st EXCEPT !.files = <<fi>>, !.brk = TRUE]
      ELSE IF st.ltinpf # <<>> /\ st.ltinpf[1] <= ctime /\ ctime <= t0 THEN
        [st EXCEPT !.files = <<st.pf[1], fi>>, !.brk = TRUE]
      ELSE
        [st EXCEPT !.ltinpf = <<tN>>, !.pf = <<fi>>, !.it = @ + 1]

RECURSIVE fiti2D_loop(_, _, _)
fiti2D_loop(st, fi, ctime) ==
  IF fi >= Len(allfiles) \/ st.brk THEN st
  ELSE fiti2D_loop(fiti2D_body(st, fi, ctime), fi + 1, ctime)

\* A scalar (a 0-d value), as against a list.
Scalar(x) == [ndim |-> 0, v |-> <<x>>]

\* A locator that asks k_closest for the three nearest times.
fiti2D_select_three(files, ctime) ==
  IF Len(files) = 1 THEN
    LET times == TimeAxis(files[1])
    IN  IF IsIn(ctime, times) THEN
          [err |-> NoError, files |-> files, timi |-> <<IndexOf(times, ctime)>>,
           times |-> Scalar(ctime), ctime |-> ctime]
        ELSE
          LET timi == k_closest(times, ctime, 3)
          IN  [err |-> NoError, files |-> files, timi |-> timi,
               times |-> PyList(<<At(times, At(timi, 0)), At(times, At(timi, 1))>>),
               ctime |-> ctime]
  ELSE
    [err |-> NoError, files |-> files,
     timi |-> <<Len(TimeAxis(files[1])) - 1, 0>>,
     times |-> PyList(<<Last(TimeAxis(files[1])), At(TimeAxis(files[2]), 0)>>),
     ctime |-> ctime]

\* "Select the index(es) of the relevant time(s)"
fiti2D_select(files, ctime) ==
  IF Len(files) = 1 THEN
    LET times == TimeAxis(files[1])
    IN  IF IsIn(ctime, times) THEN
          [err |-> NoError, files |-> files, timi |-> <<IndexOf(times, ctime)>>,
           times |-> Scalar(ctime), ctime |-> ctime]
        ELSE
          LET timi == k_closest(times, ctime, 2)
          IN  [err |-> NoError, files |-> files, timi |-> timi,
               times |-> PyList(<<At(times, At(timi, 0)), At(times, At(timi, 1))>>),
               ctime |-> ctime]
  ELSE
    [err |-> NoError, files |-> files,
     timi |-> <<Len(TimeAxis(files[1])) - 1, 0>>,
     times |-> PyList(<<Last(TimeAxis(files[1])), At(TimeAxis(files[2]), 0)>>),
     ctime |-> ctime]

get_E5_ss_2D_fiti(ctime) ==
  LET st == fiti2D_loop(fiti2D_init, 0, ctime)
  IN  IF st.err # NoError THEN [err |-> st.err]
      ELSE IF st.files = <<>> THEN [err |-> UnboundLocalError]
      ELSE fiti2D_select(st.files, ctime)

(***************************************************************************)
(* get_E5_ss_fiti(allfiles,timestr): fh is the first file that holds       *)
(* ctime, or the last file when the loop runs out.                         *)
(***************************************************************************)
RECURSIVE fiti_loop(_, _)
fiti_loop(fi, ctime) ==
  IF fi >= Len(allfiles) - 1 \/ Within(TimeAxis(fi), ctime) THEN fi
  ELSE fiti_loop(fi + 1, ctime)

get_E5_ss_fiti(ctime) ==
  LET fh == fiti_loop(0, ctime)
      times == TimeAxis(fh)
  IN  [err |-> NoError, fh |-> fh,
       timi |-> IF IsIn(ctime, times) THEN Scalar(IndexOf(times, ctime))
                ELSE PyList(k_closest(times, ctime, 2)),
       times |-> times, ctime |-> ctime]

(***************************************************************************)
(* The bounds of a centre window, "Set lat and lon ranges" in both centre   *)
(* resolvers: the locals clatp, clatm, clonp, clonm.                       *)
(***************************************************************************)
centre_bounds(clonin, clat, hda) ==
  LET clon == IF clonin < 0 THEN clonin + 360 ELSE clonin
  IN  [clatp |-> IF clat + hda > 90 THEN 90 ELSE clat + hda,
       clatm |-> IF clat - hda < -90 THEN -90 ELSE clat - hda,
       clonp |-> IF clon + hda > 360 THEN clon + hda - 360 ELSE clon + hda,
       clonm |-> IF clon - hda < 0 THEN clon - hda + 360 ELSE clon - hda]

(***************************************************************************)
(* get_E5_ss_coords(fh,clon,clat,hda).  looked holds the bounds that were  *)
(* looked up.                                                              *)
(***************************************************************************)
get_E5_ss_coords(clonin, clat, hda) ==
  LET b == centre_bounds(clonin, clat, hda)
  IN  [err |-> NoError,
       lati |-> k_closest(grid.lat, b.clatp, 1) \o k_closest(grid.lat, b.clatm, 1),
       loni |-> k_closest(grid.lon, b.clonm, 1) \o k_closest(grid.lon, b.clonp, 1),
       looked |-> b]

(***************************************************************************)
(* get_E5_ss_2D_coords(fh,clon,clat,hda)                                   *)
(***************************************************************************)
\* "Deal with cyclical lons": x > lon[-1]+(lon[1]-lon[0])/2, doubled.
cyclical(x) ==
  IF 2 * x > 2 * Last(grid.lon) + (At(grid.lon, 1) - At(grid.lon, 0))
  THEN x - 360 ELSE x

get_E5_ss_2D_coords(clonin, clat, hda) ==
  LET b0 == centre_bounds(clonin, clat, hda)
      b == [b0 EXCEPT !.clonp = cyclical(@), !.clonm = cyclical(@)]
      lat == grid.lat
      lon == grid.lon
      lati == k_closest(lat, b.clatp, 1) \o k_closest(lat, b.clatm, 1)
      loni == k_closest(lon, b.clonm, 1) \o k_closest(lon, b.clonp, 1)
      lats == Slice(lat, At(lati, 0), At(lati, 1) + 1)
  IN  IF At(loni, 1) > At(loni, 0) THEN
        [err |-> NoError, loni |-> loni, lati |-> lati,
         lons |-> Slice(lon, At(loni, 0), At(loni, 1) + 1), lats |-> lats,
         looked |-> b]
      ELSE IF At(loni, 0) > At(loni, 1) THEN
        [err |-> NoError, loni |-> loni, lati |-> lati,
         lons |-> From(lon, At(loni, 0)) \o Slice(lon, 0, At(loni, 1) + 1),
         lats |-> lats, looked |-> b]
      \* neither branch assigns lons
      ELSE [err |-> UnboundLocalError, looked |-> b]

(***************************************************************************)
(* The stored variable fh.variables[varname]: the value at the stored      *)
(* time t, latitude index la and longitude index lo.  Not linear in t, so  *)
(* that an interpolated value differs from every stored one.               *)
(***************************************************************************)
Field(t, la, lo) == t * t + 100 * la + lo

\* A reader whose latitude slice stops one row short (lati[0]:lati[1]).
Slab_latExclusive(f, ti, lati, lonsel) ==
  LET t == At(TimeAxis(f), ti)
      latsel == Slice(Indices(grid.lat), At(lati, 0), At(lati, 1))
      nlon == Len(lonsel)
  IN  [shape |-> <<Len(latsel), nlon>>,
       data |-> [n \in 1..(Len(latsel) * nlon) |->
                  Field(t, latsel[((n - 1) \div nlon) + 1], lonsel[((n - 1) % nlon) + 1])]]

\* An array with values is [shape, data], data in row-major order.
\* fh.variables[varname][ti, lati[0]:lati[1]+1, lonsel] of file f, as
\* shape (nlat, nlon); lonsel is the sequence of longitude indices read.
Slab(f, ti, lati, lonsel) ==
  LET t == At(TimeAxis(f), ti)
      latsel == Slice(Indices(grid.lat), At(lati, 0), At(lati, 1) + 1)
      nlon == Len(lonsel)
  IN  [shape |-> <<Len(latsel), nlon>>,
       data |-> [n \in 1..(Len(latsel) * nlon) |->
                  Field(t, latsel[((n - 1) \div nlon) + 1], lonsel[((n - 1) % nlon) + 1])]]

\* np.squeeze of an array with values
SqueezeShape(a) == [a EXCEPT !.shape = SelectSeq(@, LAMBDA n : n # 1)]

\* The longitude indices the reader reads: <<>> wrapped in nothing when
\* neither branch is taken.
LonSel(loni) ==
  LET lonidx == Indices(grid.lon)
  IN  IF At(loni, 1) > At(loni, 0) THEN <<Slice(lonidx, At(loni, 0), At(loni, 1) + 1)>>
      ELSE IF At(loni, 0) > At(loni, 1)
           THEN <<From(lonidx, At(loni, 0)) \o Slice(lonidx, 0, At(loni, 1) + 1)>>
           ELSE <<>>

(***************************************************************************)
(* scipy.interpolate.interp1d(times,varall,axis=0)(ctime), linear, for two *)
(* abscissae: x is sorted (with y), ctime must lie within x, and each      *)
(* value is slope*(ctime-x_lo)+y_lo, kept as the exact fraction n/d.       *)
(***************************************************************************)
interp1d(times, nslabs, slabs, ctime) ==
  IF Len(times) # nslabs \/ Len(times) # 2 THEN [err |-> NumpyValueError]
  ELSE
    LET asc == times[1] <= times[2]
        xlo == IF asc THEN times[1] ELSE times[2]
        xhi == IF asc THEN times[2] ELSE times[1]
        ylo == IF asc THEN slabs[1] ELSE slabs[2]
        yhi == IF asc THEN slabs[2] ELSE slabs[1]
    IN  IF ctime < xlo \/ ctime > xhi THEN [err |-> NumpyValueError]
        ELSE [err |-> NoError,
              var |-> [shape |-> ylo.shape,
                       data |-> [n \in 1..Len(ylo.data) |->
                                  [n |-> ylo.data[n] * (xhi - xlo)
                                         + (yhi.data[n] - ylo.data[n]) * (ctime - xlo),
                                   d |-> xhi - xlo]]]]

(***************************************************************************)
(* get_E5_ss_2D_var(fh,varname,timi,loni,lati,times,ctime)                 *)
(***************************************************************************)
\* A reader that takes one file with any number of indices but two as the
\* exact case.
get_E5_ss_2D_var_anyIndices(fh, timi, loni, lati, times, ctime) ==
  LET sel == LonSel(loni)
  IN  IF Len(fh) = 1 /\ Len(timi) # 2 /\ Len(timi) >= 1 THEN
        \* Instance where at exact time
        IF sel = <<>> THEN [err |-> UnboundLocalError]
        ELSE IF At(loni, 1) > At(loni, 0)
             THEN LET a == Slab(fh[1], timi[1], lati, sel[1])
                  IN  [err |-> NoError,
                       var |-> SqueezeShape([shape |-> <<1>> \o a.shape, data |-> a.data])]
             ELSE [err |-> NoError, var |-> Slab(fh[1], timi[1], lati, sel[1])]
      ELSE IF Len(fh) = 1 /\ Len(timi) = 2 THEN
        \* Instance where between times in 1 file, interpolation required
        IF sel = <<>> THEN [err |-> UnboundLocalError]
        ELSE LET tsel == Slice(Indices(TimeAxis(fh[1])), timi[1], timi[2] + 1)
                 slabs == [k \in 1..Len(tsel) |-> Slab(fh[1], tsel[k], lati, sel[1])]
             IN  interp1d(times.v, Len(tsel), slabs, ctime)
      ELSE IF Len(fh) = 2 /\ Len(timi) = 2 THEN
        \* Instance where between two files
        IF sel = <<>> THEN [err |-> UnboundLocalError]
        ELSE interp1d(times.v, 2,
                      <<Slab(fh[1], timi[1], lati, sel[1]),
                        Slab(fh[2], timi[2], lati, sel[1])>>, ctime)
      ELSE [err |-> SelectingTimes]

get_E5_ss_2D_var(fh, timi, loni, lati, times, ctime) ==
  LET sel == LonSel(loni)
  IN  IF Len(fh) = 1 /\ Len(timi) = 1 THEN
        \* Instance where at exact time
        IF sel = <<>> THEN [err |-> UnboundLocalError]
        ELSE IF At(loni, 1) > At(loni, 0)
             THEN LET a == Slab(fh[1], timi[1], lati, sel[1])
                  IN  [err |-> NoError,
                       var |-> SqueezeShape([shape |-> <<1>> \o a.shape, data |-> a.data])]
             ELSE [err |-> NoError, var |-> Slab(fh[1], timi[1], lati, sel[1])]
      ELSE IF Len(fh) = 1 /\ Len(timi) = 2 THEN
        \* Instance where between times in 1 file, interpolation required
        IF sel = <<>> THEN [err |-> UnboundLocalError]
        ELSE LET tsel == Slice(Indices(TimeAxis(fh[1])), timi[1], timi[2] + 1)
                 slabs == [k \in 1..Len(tsel) |-> Slab(fh[1], tsel[k], lati, sel[1])]
             IN  interp1d(times.v, Len(tsel), slabs, ctime)
      ELSE IF Len(fh) = 2 /\ Len(timi) = 2 THEN
        \* Instance where between two files
        IF sel = <<>> THEN [err |-> UnboundLocalError]
        ELSE interp1d(times.v, 2,
                      <<Slab(fh[1], timi[1], lati, sel[1]),
                        Slab(fh[2], timi[2], lati, sel[1])>>, ctime)
      ELSE [err |-> SelectingTimes]

\* The centre windows (clon, clat, hda) a caller of the 2-D functions asks for.
CentreQuery == {<<90, 0, 45>>, <<0, 0, 45>>, <<-45, 45, 90>>, <<90, 45, 0>>}

(***************************************************************************)
(* get_E5_subset_2D(datadir,fileid,varname,timestr,clon,clat,hda).  The    *)
(* names the module binds at its top level are its imports and its defs;   *)
(* calling a name that is not among them raises NameError at the call.     *)
(***************************************************************************)
NameError == "NameError"

ModuleNames ==
  {"np", "glob", "Dataset", "tfns", "mfns", "interp1d",
   "get_E5_ss_4D", "get_E5_ss_4D_fiti", "get_E5_ss_4D_coords",
   "get_E5_ss_4D_levels", "get_E5_ss_4D_2levels", "get_E5_ss_4D_var",
   "get_E5_ss_4D_levavgvar", "get_E5_ss_4D_levdiffvar", "get_E5_ss_files",
   "get_E5_ss_fiti", "get_E5_ss_coords", "get_E5_subset_2D",
   "get_E5_ss_2D_fiti", "get_E5_ss_2D_coords", "get_E5_ss_2D_var"}

\* The functions the body calls, in the order it calls them.
Subset2DCalls == <<"get_E5_ss_file", "get_E5_ss_3D_coords", "get_E5_ss_3D_var">>

get_E5_subset_2D(ctime, clon, clat, hda) ==
  IF \E i \in 1..Len(Subset2DCalls) : Subset2DCalls[i] \notin ModuleNames
  THEN [err |-> NameError,
        name |-> Subset2DCalls[CHOOSE i \in 1..Len(Subset2DCalls) :
                                 /\ Subset2DCalls[i] \notin ModuleNames
                                 /\ \A j \in 1..(i - 1) : Subset2DCalls[j] \in ModuleNames]]
  ELSE [err |-> NoError]

(***************************************************************************)
(* The calls.                                                              *)
(***************************************************************************)
Init ==
  /\ allfiles \in Layouts
  /\ grid \in Grids
  /\ pc = "idle"
  /\ call = [fn |-> "none"]
  /\ ret = [err |-> NoError]
  /\ loc = [err |-> NoError]
  /\ win = [err |-> NoError]

Call_get_E5_ss_4D_fiti ==
  /\ pc = "idle"
  /\ \E time1 \in QueryTimes : \E time2 \in QueryTimes :
       /\ time1 <= time2
       /\ call' = [fn |-> "get_E5_ss_4D_fiti", time1 |-> time1, time2 |-> time2]
       /\ ret' = get_E5_ss_4D_fiti(time1, time2)
  /\ pc' = "done"
  /\ UNCHANGED <<allfiles, grid, loc, win>>

Call_get_E5_ss_files ==
  /\ pc = "idle"
  /\ \E time1 \in QueryTimes : \E time2 \in QueryTimes :
       /\ time1 <= time2
       /\ call' = [fn |-> "get_E5_ss_files", time1 |-> time1, time2 |-> time2]
       /\ ret' = get_E5_ss_files(time1, time2)
  /\ pc' = "done"
  /\ UNCHANGED <<allfiles, grid, loc, win>>

Call_get_E5_ss_4D ==
  /\ pc = "idle"
  /\ \E time1 \in QueryTimes, time2 \in QueryTimes :
     \E lev \in LevQuery, lat \in LatQuery, lon \in LonQuery :
       /\ time1 <= time2
       /\ call' = [fn |-> "get_E5_ss_4D", time1 |-> time1, time2 |-> time2,
                   lev |-> lev, lat |-> lat, lon |-> lon]
       /\ ret' = get_E5_ss_4D(time1, time2, lev[1], lev[2], lat[1], lat[2],
                              lon[1], lon[2])
  /\ pc' = "done"
  /\ UNCHANGED <<allfiles, grid, loc, win>>

Call_get_E5_ss_fiti ==
  /\ pc = "idle"
  /\ \E ctime \in QueryTimes :
       /\ call' = [fn |-> "get_E5_ss_fiti", ctime |-> ctime]
       /\ ret' = get_E5_ss_fiti(ctime)
  /\ pc' = "done"
  /\ UNCHANGED <<allfiles, grid, loc, win>>

\* The 2-D functions as their caller chains them: the locator, then the
\* centre-window resolver on the first located file, then the reader on what
\* the two returned.  An exception ends the chain.
Call_get_E5_ss_2D_fiti ==
  /\ pc = "idle"
  /\ \E ctime \in QueryTimes :
       /\ call' = [fn |-> "get_E5_ss_2D_fiti", ctime |-> ctime]
       /\ ret' = get_E5_ss_2D_fiti(ctime)
  /\ loc' = ret'
  /\ pc' = IF ret'.err = NoError THEN "located" ELSE "done"
  /\ UNCHANGED <<allfiles, grid, win>>

Call_get_E5_ss_2D_coords ==
  /\ pc = "located"
  /\ \E q \in CentreQuery :
       /\ call' = [fn |-> "get_E5_ss_2D_coords", ctime |-> call.ctime, q |-> q]
       /\ ret' = get_E5_ss_2D_coords(q[1], q[2], q[3])
  /\ win' = ret'
  /\ pc' = IF ret'.err = NoError THEN "resolved" ELSE "done"
  /\ UNCHANGED <<allfiles, grid, loc>>

Call_get_E5_ss_2D_var ==
  /\ pc = "resolved"
  /\ call' = [fn |-> "get_E5_ss_2D_var", ctime |-> call.ctime, q |-> call.q]
  /\ ret' = get_E5_ss_2D_var(loc.files, loc.timi, win.loni, win.lati, loc.times,
                             loc.ctime)
  /\ pc' = "done"
  /\ UNCHANGED <<allfiles, grid, loc, win>>

Call_get_E5_subset_2D ==
  /\ pc = "idle"
  /\ \E ctime \in QueryTimes, q \in CentreQuery :
       /\ call' = [fn |-> "get_E5_subset_2D", ctime |-> ctime, q |-> q]
       /\ ret' = get_E5_subset_2D(ctime, q[1], q[2], q[3])
  /\ pc' = "done"
  /\ UNCHANGED <<allfiles, grid, loc, win>>

\* The single-instant functions.
Next2D ==
  \/ Call_get_E5_subset_2D
  \/ Call_get_E5_ss_fiti
  \/ Call_get_E5_ss_2D_fiti
  \/ Call_get_E5_ss_2D_coords
  \/ Call_get_E5_ss_2D_var

Spec2D == Init /\ [][Next2D]_vars

\* The signed longitudes and the latitude pairs a caller of the box resolver
\* asks for, on and off the grid.
LonBounds == {-180, -170, -135, -90, -45, -10, 0, 10, 45, 90, 135, 170, 180}

LatBounds == {<<0, 0>>, <<0, 90>>, <<-90, 90>>, <<-60, 30>>}

Call_get_E5_ss_4D_coords ==
  /\ pc = "idle"
  /\ \E lat \in LatBounds, lon1 \in LonBounds, lon2 \in LonBounds :
       /\ lon1 <= lon2
       /\ call' = [fn |-> "get_E5_ss_4D_coords", lat |-> lat, lon |-> <<lon1, lon2>>]
       /\ ret' = get_E5_ss_4D_coords(lat[1], lat[2], lon1, lon2)
  /\ pc' = "done"
  /\ UNCHANGED <<allfiles, grid, loc, win>>

\* The centre windows a caller of the centre resolvers asks for: centre
\* longitudes in [-180, 360), centre latitudes in [-90, 90], half-widths in
\* [0, 180], on and off the grid.
CentreLons == {-180, -45, 0, 270, 315, 350}

CentreLats == {-90, 0, 60}

HalfWidths == {0, 10, 45, 180}

Call_get_E5_ss_coords ==
  /\ pc = "idle"
  /\ \E clon \in CentreLons, clat \in CentreLats, hda \in HalfWidths :
       /\ call' = [fn |-> "get_E5_ss_coords", q |-> <<clon, clat, hda>>]
       /\ ret' = get_E5_ss_coords(clon, clat, hda)
  /\ pc' = "done"
  /\ UNCHANGED <<allfiles, grid, loc, win>>

\* get_E5_ss_2D_coords called on its own, on any file of the directory.
Call_get_E5_ss_2D_coords_alone ==
  /\ pc = "idle"
  /\ \E clon \in CentreLons, clat \in CentreLats, hda \in HalfWidths :
       /\ call' = [fn |-> "get_E5_ss_2D_coords", q |-> <<clon, clat, hda>>]
       /\ ret' = get_E5_ss_2D_coords(clon, clat, hda)
  /\ pc' = "done"
  /\ UNCHANGED <<allfiles, grid, loc, win>>

\* The most file handles, and the most time indices, handed to the reader.
MaxHandles == 3

MaxIndices == 3

\* The longitude windows handed to the reader: plain, through the seam, and
\* one column wide.
ReaderWindows == {<<1, 2>>, <<7, 1>>, <<2, 2>>}

\* get_E5_ss_2D_var called on its own with nf file handles (the files from f0
\* on, cyclically) and nt time indices (from i0 on, cyclically among those
\* every handle holds), times being the stored times at those indices and
\* ctime the first of them.
Call_get_E5_ss_2D_var_alone ==
  /\ pc = "idle"
  /\ \E nf \in 0..MaxHandles, nt \in 0..MaxIndices, f0 \in 0..(Len(allfiles) - 1),
        i0 \in 0..(MaxLen - 1), loni \in ReaderWindows :
       LET fh == [k \in 1..nf |-> (f0 + k - 1) % Len(allfiles)]
           lens == {Len(TimeAxis(f0))} \cup {Len(TimeAxis(fh[k])) : k \in 1..nf}
           n == CHOOSE m \in lens : \A l \in lens : m <= l
           timi == [k \in 1..nt |-> (i0 + k - 1) % n]
           tv == [k \in 1..nt |-> At(TimeAxis(IF k <= nf THEN fh[k] ELSE f0), timi[k])]
           times == IF nt = 1 THEN Scalar(tv[1]) ELSE PyList(tv)
           ctime == IF nt = 0 THEN FirstTime ELSE tv[1]
       IN  /\ i0 < n
           /\ call' = [fn |-> "get_E5_ss_2D_var", fh |-> fh, timi |-> timi,
                       loni |-> loni, lati |-> <<0, 1>>, times |-> times,
                       ctime |-> ctime]
           /\ ret' = get_E5_ss_2D_var(fh, timi, loni, <<0, 1>>, times, ctime)
  /\ pc' = "done"
  /\ UNCHANGED <<allfiles, grid, loc, win>>

\* The 2-D reader, called on its own.
NextRead ==
  \/ Call_get_E5_ss_2D_var_alone

SpecRead == Init /\ [][NextRead]_vars

\* The coordinate resolvers, called on their own.
NextCoords ==
  \/ Call_get_E5_ss_4D_coords
  \/ Call_get_E5_ss_coords
  \/ Call_get_E5_ss_2D_coords_alone

SpecCoords == Init /\ [][NextCoords]_vars

\* The range locators, called on their own.
NextLocate ==
  \/ Call_get_E5_ss_4D_fiti
  \/ Call_get_E5_ss_files

SpecLocate == Init /\ [][NextLocate]_vars

\* The 4-D entry point.
Next4D ==
  \/ Call_get_E5_ss_4D

Spec4D == Init /\ [][Next4D]_vars

(***************************************************************************)
(* What the claims speak of.                                               *)
(***************************************************************************)
FileIds == 0..(Len(allfiles) - 1)

\* Some file holds t between its first and last time.
Covered(t) == \E f \in FileIds : Within(TimeAxis(f), t)

FileOf(t) == CHOOSE f \in FileIds : Within(TimeAxis(f), t)

\* Every stored time, in file order, and where file f starts in it.
AllTimes == [n \in 1..SumSeq([f \in 1..Len(allfiles) |-> Len(allfiles[f])]) |->
               FirstTime + Step * (n - 1)]

Offset(f) == SumSeq([g \in 1..f |-> Len(allfiles[g])])

\* The index of the stored time of file f nearest to t.
Nearest(f, t) ==
  CHOOSE i \in 0..(Len(TimeAxis(f)) - 1) :
    \A j \in 0..(Len(TimeAxis(f)) - 1) :
      \/ Abs(At(TimeAxis(f), i) - t) < Abs(At(TimeAxis(f), j) - t)
      \/ (Abs(At(TimeAxis(f), i) - t) = Abs(At(TimeAxis(f), j) - t) /\ i <= j)

IsDataUnavailable(r) == r.err \in {DataUnavailable, TimeBefore, TimeAfter}

Returned4D == pc = "done" /\ call.fn = "get_E5_ss_4D" /\ ret.err = NoError

\* The range spans two or more files: each bound lies in a file, the upper
\* one in a later file.
SpansFiles ==
  /\ call.fn = "get_E5_ss_4D"
  /\ Covered(call.time1)
  /\ Covered(call.time2)
  /\ FileOf(call.time1) < FileOf(call.time2)

\* The stored times from the one nearest the lower bound in its file to the
\* one nearest the upper bound in its file.
StitchedTimes ==
  LET a == FileOf(call.time1)
      b == FileOf(call.time2)
  IN  SubSeq(AllTimes, Offset(a) + Nearest(a, call.time1) + 1,
             Offset(b) + Nearest(b, call.time2) + 1)

\* The window resolver returned, so get_E5_ss_4D goes on to the reader.
ReaderCalled ==
  get_E5_ss_4D_coords(call.lat[1], call.lat[2], call.lon[1], call.lon[2]).err = NoError

RangeLocatorCalled ==
  pc = "done" /\ call.fn \in {"get_E5_ss_4D_fiti", "get_E5_ss_files"}

InstantLocatorCalled ==
  pc # "idle" /\ call.fn \in {"get_E5_ss_2D_fiti", "get_E5_ss_fiti"}

\* The window the resolver handed to the 2-D reader, spelled out: its rows
\* are the latitude indices lati[0]..lati[1], its columns the longitude
\* indices from loni[0] eastwards (through the seam) to loni[1].
NRows == IF win.lati[2] >= win.lati[1] THEN win.lati[2] - win.lati[1] + 1 ELSE 0

NCols == ((win.loni[2] - win.loni[1]) % Len(grid.lon)) + 1

\* The stored value at time t at position n (row-major) of the window.
Stored(t, n) ==
  Field(t, win.lati[1] + ((n - 1) \div NCols),
        (win.loni[1] + ((n - 1) % NCols)) % Len(grid.lon))

IsStored(t) == \E f \in FileIds : IsIn(t, TimeAxis(f))

Located2D == pc # "idle" /\ call.fn = "get_E5_ss_2D_fiti"

Read2D == pc = "done" /\ call.fn = "get_E5_ss_2D_var"

\* t lies strictly between the stored times j and j+1 of file f.
Brackets(f, j, t) ==
  /\ j + 1 < Len(TimeAxis(f))
  /\ At(TimeAxis(f), j) < t
  /\ t < At(TimeAxis(f), j + 1)

\* t lies strictly between the last time of file f and the first of f+1.
Between(f, t) ==
  /\ f + 1 < Len(allfiles)
  /\ Last(TimeAxis(f)) < t
  /\ t < At(TimeAxis(f + 1), 0)

\* The fraction v is the value at x of the line through (x0,y0) and (x1,y1).
OnLine(v, x, x0, y0, x1, y1) ==
  v.n * (x1 - x0) = v.d * (y0 * (x1 - x) + y1 * (x - x0))

\* The array the 2-D reader returned is, value for value, the line through the
\* slices stored at t0 and t1, taken at ctime.
Interpolated(t0, t1) ==
  /\ ret.err = NoError
  /\ Len(ret.var.data) = NRows * NCols
  /\ \A n \in 1..Len(ret.var.data) :
       OnLine(ret.var.data[n], call.ctime, t0, Stored(t0, n), t1, Stored(t1, n))

StrictlyIncreasing(v) == \A i \in 1..(Len(v) - 1) : v[i] < v[i + 1]

(***************************************************************************)
(* C1: when both time bounds fall inside the same file, the array that     *)
(* get_E5_ss_4D returns holds exactly that file's time steps timi[0] to    *)
(* timi[1] inclusive, as many as the times vector has, and no stored time  *)
(* step after the upper bound's.                                           *)
(***************************************************************************)
C1_SingleFileTimeAxis ==
  (/\ Returned4D
   /\ Covered(call.time1)
   /\ Covered(call.time2)
   /\ FileOf(call.time1) = FileOf(call.time2))
  => LET f == FileOf(call.time1)
     IN  /\ ret.var.dims[1] = Slice(TimeAxis(f), Nearest(f, call.time1),
                                    Nearest(f, call.time2) + 1)
         /\ Len(ret.var.dims[1]) = Len(ret.times)

(***************************************************************************)
(* C2: for a range that spans two or more files, get_E5_ss_4D returns, and *)
(* the times vector and the time axis of the array are both the stored     *)
(* times from the one nearest the lower bound in its file to the one       *)
(* nearest the upper bound in its file, in file order, each exactly once.  *)
(***************************************************************************)
C2_MultiFileStitching ==
  (pc = "done" /\ SpansFiles /\ ReaderCalled)
  => /\ ret.err = NoError
     /\ ret.times = StitchedTimes
     /\ ret.var.dims[1] = StitchedTimes

(***************************************************************************)
(* C3: the level axis of the array read by get_E5_ss_4D_var is as long as  *)
(* the levs vector of get_E5_ss_4D_levels.                                 *)
(***************************************************************************)
C3_LevelAxisLength ==
  (Returned4D /\ Len(ret.var.dims) = 4)
  => Len(ret.var.dims[2]) = Len(ret.levs.v)

(***************************************************************************)
(* C4: lower bound inside a file, upper bound later than the last stored   *)
(* time: both range locators fail with a data-unavailable error.           *)
(***************************************************************************)
C4_UpperBoundOutside ==
  (/\ RangeLocatorCalled
   /\ Covered(call.time1)
   /\ call.time2 > Last(Last(allfiles)))
  => IsDataUnavailable(ret)

(***************************************************************************)
(* C5: lower bound earlier than the first stored time: both range locators *)
(* fail with a data-unavailable error.                                     *)
(***************************************************************************)
C5_LowerBoundBefore ==
  (RangeLocatorCalled /\ call.time1 < allfiles[1][1])
  => IsDataUnavailable(ret)

(***************************************************************************)
(* C6: a single instant earlier than the first stored time or later than   *)
(* the last one: both single-instant locators raise a data-unavailability  *)
(* error and return no file.                                               *)
(***************************************************************************)
C6_InstantOutside ==
  (/\ InstantLocatorCalled
   /\ (call.ctime < allfiles[1][1] \/ call.ctime > Last(Last(allfiles))))
  => IsDataUnavailable(ret)

(***************************************************************************)
(* C7: when the instant equals a stored time, get_E5_ss_2D_fiti returns    *)
(* the one file that stores it with the single exact index, and            *)
(* get_E5_ss_2D_var returns the stored values at that time over the        *)
(* window, not interpolated.                                               *)
(***************************************************************************)
C7_ExactMatch ==
  /\ (Located2D /\ IsStored(call.ctime))
     => /\ ret.err = NoError
        /\ Len(ret.files) = 1
        /\ Len(ret.timi) = 1
        /\ At(TimeAxis(ret.files[1]), ret.timi[1]) = call.ctime
  /\ (Read2D /\ IsStored(call.ctime))
     => /\ ret.err = NoError
        /\ Len(ret.var.data) = NRows * NCols
        /\ \A n \in 1..Len(ret.var.data) : ret.var.data[n] = Stored(call.ctime, n)

\* The reader returned a slice of several values, read through the seam, for
\* an instant stored in a file that is not the first.
C7_Witness ==
  /\ Read2D
  /\ IsStored(call.ctime)
  /\ ~IsIn(call.ctime, TimeAxis(0))
  /\ ret.err = NoError
  /\ Len(ret.var.data) > 1
  /\ win.loni[1] > win.loni[2]

C9_InterpolateAcrossFiles ==
  \A f \in FileIds :
    ((Located2D \/ Read2D) /\ Between(f, call.ctime)) =>
      /\ Located2D
         => /\ ret.err = NoError
            /\ ret.files = <<f, f + 1>>
            /\ ret.timi = <<Len(TimeAxis(f)) - 1, 0>>
            /\ ret.times.v = <<Last(TimeAxis(f)), At(TimeAxis(f + 1), 0)>>
      /\ Read2D
         => Interpolated(Last(TimeAxis(f)), At(TimeAxis(f + 1), 0))

\* The reader interpolated several values between the files N and N+1, N not
\* the first file, at an instant nearer to the first time of file N+1.
C9_Witness ==
  /\ Read2D
  /\ \E f \in FileIds :
       /\ Between(f, call.ctime)
       /\ f > 0
       /\ call.ctime - Last(TimeAxis(f)) > At(TimeAxis(f + 1), 0) - call.ctime
  /\ ret.err = NoError
  /\ Len(ret.var.data) > 1

(***************************************************************************)
(* C10: for signed bounds lon1 < 0 <= lon2 on the ascending [0, 360) axis, *)
(* get_E5_ss_4D_coords resolves loni[0] > loni[1] and returns a strictly   *)
(* increasing longitude vector: the axis from loni[0] on with 360          *)
(* subtracted from the values >= 180, then the axis up to loni[1].         *)
(***************************************************************************)
C10_WraparoundVector ==
  (/\ pc = "done"
   /\ call.fn = "get_E5_ss_4D_coords"
   /\ call.lon[1] < 0
   /\ call.lon[2] >= 0)
  => /\ ret.err = NoError
     /\ ret.loni[1] > ret.loni[2]
     /\ StrictlyIncreasing(ret.lons.v)
     /\ Len(ret.lons.v) = (Len(grid.lon) - ret.loni[1]) + (ret.loni[2] + 1)
     /\ \A i \in 1..Len(ret.lons.v) :
          LET x == grid.lon[((ret.loni[1] + i - 1) % Len(grid.lon)) + 1]
          IN  ret.lons.v[i] = IF i <= Len(grid.lon) - ret.loni[1] /\ x >= 180
                              THEN x - 360 ELSE x

(***************************************************************************)
(* C11: when get_E5_ss_2D_coords resolves a window through the seam        *)
(* (loni[0] > loni[1]), the longitude vector it returns is strictly        *)
(* increasing: the axis from loni[0] on with 360 subtracted from the       *)
(* values >= 180, then the axis up to loni[1].                             *)
(***************************************************************************)
Resolved2D == pc # "idle" /\ call.fn = "get_E5_ss_2D_coords" /\ ret.err = NoError

C11_CentreWraparoundVector ==
  (Resolved2D /\ ret.loni[1] > ret.loni[2])
  => /\ StrictlyIncreasing(ret.lons)
     /\ Len(ret.lons) = (Len(grid.lon) - ret.loni[1]) + (ret.loni[2] + 1)
     /\ \A i \in 1..Len(ret.lons) :
          LET x == grid.lon[((ret.loni[1] + i - 1) % Len(grid.lon)) + 1]
          IN  ret.lons[i] = IF i <= Len(grid.lon) - ret.loni[1] /\ x >= 180
                            THEN x - 360 ELSE x

(***************************************************************************)
(* C12: for bounds whose normalised values satisfy lon1 <= lon2,           *)
(* get_E5_ss_4D_coords returns loni[0] <= loni[1] with lats and lons       *)
(* defined and lons strictly ascending; when both bounds resolve to the    *)
(* same grid index, lons has that one element.                             *)
(***************************************************************************)
\* A signed longitude on [0, 360).
Normalised(x) == IF x < 0 THEN x + 360 ELSE x

C12_NonWrappingWindow ==
  (/\ pc = "done"
   /\ call.fn = "get_E5_ss_4D_coords"
   /\ Normalised(call.lon[1]) <= Normalised(call.lon[2]))
  => /\ ret.err = NoError
     /\ ret.loni[1] <= ret.loni[2]
     /\ ret.lons.v = Slice(grid.lon, ret.loni[1], ret.loni[2] + 1)
     /\ StrictlyIncreasing(ret.lons.v)
     /\ ret.lats.v = Slice(grid.lat, ret.lati[1], ret.lati[2] + 1)

(***************************************************************************)
(* C13: for an instant covered by the files, get_E5_subset_2D runs its     *)
(* pipeline on functions the module defines and returns the variable       *)
(* subset with its longitude and latitude vectors; it does not end in an   *)
(* unresolved call.                                                        *)
(***************************************************************************)
C13_EntryPoint2D ==
  (/\ pc = "done"
   /\ call.fn = "get_E5_subset_2D"
   /\ allfiles[1][1] <= call.ctime
   /\ call.ctime <= Last(Last(allfiles)))
  => ret.err = NoError

(***************************************************************************)
(* C14: for latitude bounds lat1 <= lat2 on an ascending latitude axis,    *)
(* the window get_E5_ss_4D_coords returns has 0 <= lati[0] <= lati[1] <    *)
(* len(lat), so that lats is not empty, and lats runs from the grid value  *)
(* nearest lat1 to the grid value nearest lat2.                            *)
(***************************************************************************)
Ascending(axis) == \A i \in 1..(Len(axis) - 1) : axis[i] < axis[i + 1]

Descending(axis) == \A i \in 1..(Len(axis) - 1) : axis[i] > axis[i + 1]

\* v is a value of the axis as near to x as any.
IsNearest(axis, v, x) ==
  /\ IsIn(v, axis)
  /\ \A i \in 1..Len(axis) : Abs(v - x) <= Abs(axis[i] - x)

ReturnedBox ==
  /\ pc = "done"
  /\ call.fn = "get_E5_ss_4D_coords"
  /\ ret.err = NoError
  /\ call.lat[1] <= call.lat[2]

\* The latitude window is in range, in order and not empty.
LatWindowInOrder ==
  /\ 0 <= ret.lati[1]
  /\ ret.lati[1] <= ret.lati[2]
  /\ ret.lati[2] < Len(grid.lat)
  /\ ret.lats.v = Slice(grid.lat, ret.lati[1], ret.lati[2] + 1)
  /\ ret.lats.v # <<>>

Clipped(x) == IF x > 90 THEN 90 ELSE IF x < -90 THEN -90 ELSE x

CentreResolverCalled ==
  pc # "idle" /\ call.fn \in {"get_E5_ss_coords", "get_E5_ss_2D_coords"}

C15_CentreWindowBounds ==
  CentreResolverCalled
  => LET clon == call.q[1]
         clat == call.q[2]
         hda == call.q[3]
     IN  /\ ret.looked.clatp = Clipped(clat + hda)
         /\ ret.looked.clatm = Clipped(clat - hda)
         /\ ret.looked.clonp = (clon + hda) % 360
         /\ ret.looked.clonm = (clon - hda) % 360

(***************************************************************************)
(* C16: for lower <= upper, lower not before the first stored time and     *)
(* upper not after the last one, get_E5_ss_files returns the files from    *)
(* the one that holds lower (the one just before the gap, when lower lies  *)
(* between two files) to the one that holds upper (the one just after the  *)
(* gap, when upper lies between two files), each once, in order, and no    *)
(* file after that one.                                                    *)
(***************************************************************************)
SpanAsked ==
  /\ pc = "done"
  /\ call.fn = "get_E5_ss_files"
  /\ allfiles[1][1] <= call.time1
  /\ call.time1 <= call.time2
  /\ call.time2 <= Last(Last(allfiles))

\* The last file that starts at or before t.
StartFile(t) == CHOOSE f \in FileIds :
  /\ TimeAxis(f)[1] <= t
  /\ \A g \in FileIds : TimeAxis(g)[1] <= t => g <= f

\* The first file that ends at or after t.
EndFile(t) == CHOOSE f \in FileIds :
  /\ t <= Last(TimeAxis(f))
  /\ \A g \in FileIds : t <= Last(TimeAxis(g)) => f <= g

\* The files a to b, in order.
Run(a, b) == [i \in 1..(b - a + 1) |-> a + i - 1]

C16_FileSpanList ==
  SpanAsked
  => /\ ret.err = NoError
     /\ ret.ssfiles = Run(StartFile(call.time1), EndFile(call.time2))

\* The lower bound lies in a gap, the upper bound in a later file that is not
\* the last of the directory.
C16_Witness ==
  /\ SpanAsked
  /\ ~Covered(call.time1)
  /\ Covered(call.time2)
  /\ ret.err = NoError
  /\ Len(ret.ssfiles) >= 2
  /\ Last(ret.ssfiles) < Len(allfiles) - 1

(***************************************************************************)
(* C17: get_E5_ss_2D_var raises an error and returns no array for every    *)
(* combination of (number of file handles, number of time indices) other   *)
(* than (1,1), (1,2) and (2,2).                                            *)
(***************************************************************************)
ReaderClasses == {<<1, 1>>, <<1, 2>>, <<2, 2>>}

ReadAlone == pc = "done" /\ call.fn = "get_E5_ss_2D_var" /\ "fh" \in DOMAIN call

C17_FailFast ==
  (ReadAlone /\ <<Len(call.fh), Len(call.timi)>> \notin ReaderClasses)
  => /\ ret.err # NoError
     /\ "var" \notin DOMAIN ret

\* The reader was handed one file with three indices, and two files with one
\* index, over a window it can read, and raised its own error.
C17_Witness ==
  /\ ReadAlone
  /\ <<Len(call.fh), Len(call.timi)>> \in {<<1, 3>>, <<2, 1>>}
  /\ call.loni[1] # call.loni[2]
  /\ ret.err = SelectingTimes

(***************************************************************************)
(* C18: for any instant, get_E5_ss_2D_fiti either raises the before-range  *)
(* or the after-range error, or returns with files assigned and            *)
(* (len(files), len(timi)) one of (1,1), (1,2), (2,2); so the reader, fed   *)
(* what the locator returned, never raises "Something went wrong in        *)
(* selecting times".                                                       *)
(***************************************************************************)
C18_LocatorTotal ==
  /\ Located2D
     => \/ ret.err \in {TimeBefore, TimeAfter}
        \/ /\ ret.err = NoError
           /\ ret.files # <<>>
           /\ \A k \in 1..Len(ret.files) : ret.files[k] \in FileIds
           /\ <<Len(ret.files), Len(ret.timi)>> \in ReaderClasses
  /\ (Read2D /\ ~ReadAlone) => ret.err # SelectingTimes

\* The reader returned an array for an instant the locator placed between
\* two times of the last of several files.
C18_Witness ==
  /\ Read2D
  /\ ~ReadAlone
  /\ Len(allfiles) > 1
  /\ loc.files = <<Len(allfiles) - 1>>
  /\ Len(loc.timi) = 2
  /\ ret.err = NoError

====
